---- MODULE Spec2Model ----
(***************************************************************************)
(* Model of the cencori-go client: the generic request executor doRequest  *)
(* (client.go), the error model (APIError, fillSentinel, handleError) and  *)
(* the streaming decoder ChatService.Stream (chat.go) with its reader      *)
(* goroutine, its cancellation watcher goroutine and the consumer of the   *)
(* unbuffered chunk channel.                                               *)
(***************************************************************************)
EXTENDS Integers, Sequences, FiniteSets, TLC

\* Longest response body of a stream, in lines.
MaxLines == 3

\* Most calls of fillSentinel on one error value.
MaxFills == 2

\* Most concurrent calls on one client.
MaxCalls == 2

\* http.StatusOK, the only status doRequest and Stream treat as success.
StatusOK == 200

\* HTTP statuses a server answers with.
Statuses == {200, 201, 401, 429, 503}

\* A "status" value a JSON error body may itself carry (0: it carries none).
BodyStatuses == {0, 200, 500}

---------------------------------------------------------------------------
\* Error model

SentinelCodes ==
    {"INVALID_API_KEY", "RATE_LIMIT_EXCEEDED", "INSUFFICIENT_CREDITS",
     "TIER_RESTRICTED", "INVALID_MODEL", "PROVIDER_ERROR", "CONTENT_FILTERED"}

\* The machine codes a server may put in an error body: the table's, none,
\* and one the table does not know.
Codes == SentinelCodes \cup {"", "SOMETHING_ELSE"}

NoSentinel == "nil"

\* The code -> sentinel table.
sentinelTable ==
    [c \in SentinelCodes |->
        CASE c = "INVALID_API_KEY"      -> "ErrInvalidApiKey"
          [] c = "RATE_LIMIT_EXCEEDED"  -> "ErrRateLimited"
          [] c = "INSUFFICIENT_CREDITS" -> "ErrInsufficientCredits"
          [] c = "TIER_RESTRICTED"      -> "ErrTierRestricted"
          [] c = "INVALID_MODEL"        -> "ErrInvalidModel"
          [] c = "PROVIDER_ERROR"       -> "ErrProvider"
          [] c = "CONTENT_FILTERED"     -> "ErrContentFiltered"]

\* An error value. kind "nil" is the nil error, kind "api" an *APIError, the
\* other kinds are the errors fmt.Errorf builds ("marshal request", "create
\* request", "execute request", "decode response", "stream read",
\* "unmarshal chunk"). Err is the wrapped sentinel of an APIError.
MkError(kind, status, code, msg, wrapped) ==
    [kind |-> kind, StatusCode |-> status, Code |-> code, Message |-> msg,
     Err |-> wrapped]

NoError == MkError("nil", 0, "", "", NoSentinel)

LocalError(kind) == MkError(kind, 0, "", "", NoSentinel)

APIError(status, code, msg) == MkError("api", status, code, msg, NoSentinel)

\* fillSentinel with a default sentinel for the codes the table lacks.
fillSentinel_DefaultSentinel(e) ==
    IF e.Code \in DOMAIN sentinelTable
    THEN [e EXCEPT !.Err = sentinelTable[e.Code]]
    ELSE [e EXCEPT !.Err = "ErrProvider"]

\* (*APIError).fillSentinel: sets Err when the code is in the table, and
\* leaves the value alone otherwise.
fillSentinel(e) ==
    IF e.Code \in DOMAIN sentinelTable
    THEN [e EXCEPT !.Err = sentinelTable[e.Code]]
    ELSE e

\* The APIError values fillSentinel is applied to: decoded or built with a
\* code of the table, a code the table lacks or no code, and no Err yet.
APIErrors ==
    {APIError(st, c, m) : st \in Statuses \cup {0}, c \in Codes,
                          m \in {"", "boom"}}

\* errors.Is(err, sentinel): Unwrap of an APIError returns its Err.
ErrorsIs(e, sentinel) == e.kind = "api" /\ e.Err = sentinel

---------------------------------------------------------------------------
\* JSON documents: an HTTP response body, or the payload of a data line.
\*   "apierr"  {"error": <text>, "code": <code>[, "status": <status>]}
\*   "content" a JSON object of the expected response or chunk shape
\*   "errobj"  a JSON object whose "error" key holds an object, not a string
\*   "nested"  a JSON object of the chunk shape with an "error" key below
\*             the top level
\*   "bad"     text that is not JSON

Doc(kind, code, status, text) ==
    [kind |-> kind, code |-> code, status |-> status, text |-> text]

\* A delta text that holds the characters "error": itself.
QuotedText == "say \"error\": now"

\* The characters of a text, as tokens: "q" is the double quote, a word is
\* one token.
TextChars(text) ==
    IF text = QuotedText
    THEN <<"say", "q", "error", "q", ":", "now">>
    ELSE <<text>>

\* JSON string escaping: a double quote becomes backslash, double quote.
RECURSIVE Escape(_)
Escape(chars) ==
    IF chars = <<>> THEN <<>>
    ELSE (IF Head(chars) = "q" THEN <<"\\", "q">> ELSE <<Head(chars)>>)
         \o Escape(Tail(chars))

\* The JSON encoding of a string value.
JSONString(text) == <<"q">> \o Escape(TextChars(text)) \o <<"q">>

\* The bytes of a document on the wire, as tokens.
Raw(doc) ==
    CASE doc.kind = "apierr" ->
            <<"{", "q", "error", "q", ":">> \o JSONString(doc.text)
            \o <<",", "q", "code", "q", ":">> \o JSONString(doc.code)
            \o <<"}">>
      [] doc.kind = "errobj" ->
            <<"{", "q", "error", "q", ":", "{", "}", "}">>
      [] doc.kind = "content" ->
            <<"{", "q", "content", "q", ":">> \o JSONString(doc.text)
            \o <<"}">>
      [] doc.kind = "nested" ->
            <<"{", "q", "choices", "q", ":", "{", "q", "error", "q", ":",
              "null", ",", "q", "content", "q", ":">>
            \o JSONString(doc.text) \o <<"}", "}">>
      [] OTHER -> TextChars(doc.text)

\* strings.Contains(s, sub)
Contains(s, sub) ==
    \E k \in 0..(Len(s) - Len(sub)) : SubSeq(s, k + 1, k + Len(sub)) = sub

\* Whether the document is a JSON object with an "error" key at its top
\* level.
HasTopLevelErrorKey(doc) == doc.kind \in {"apierr", "errobj"}

\* json.Unmarshal(doc, &apiErr): succeeds on every JSON object whose fields
\* fit the APIError shape; keys the shape does not have are ignored, so an
\* object of another shape decodes to an APIError with empty code. Err is
\* never decoded: the zero value stays.
UnmarshalAPIError(doc) ==
    CASE doc.kind = "apierr" ->
            [ok |-> TRUE, val |-> APIError(doc.status, doc.code, doc.text)]
      [] doc.kind \in {"content", "nested"} ->
            [ok |-> TRUE, val |-> APIError(0, "", "")]
      [] OTHER ->
            [ok |-> FALSE, val |-> NoError]

\* Decoding into the caller's response type or into StreamChunk: succeeds on
\* every JSON object ("error" is no field of either, so the key is ignored).
UnmarshalValue(doc) ==
    CASE doc.kind \in {"content", "nested"} -> [ok |-> TRUE, val |-> doc.text]
      [] doc.kind \in {"apierr", "errobj"} -> [ok |-> TRUE, val |-> "zero"]
      [] OTHER -> [ok |-> FALSE, val |-> "nil"]

---------------------------------------------------------------------------
\* The request executor

\* HTTP response bodies of a non-streaming call (and of a refused stream).
Docs ==
    {Doc("apierr", c, st, "boom") : c \in Codes, st \in BodyStatuses}
    \cup {Doc("content", "", 0, t) : t \in {"p1", "p2"}}
    \cup {Doc("bad", "", 0, t) : t \in {"not json", ""}}
    \cup {Doc("errobj", "", 0, "{error:{}}")}

\* What one call of doRequest meets: the request body (none, one that
\* marshals, one that does not), whether the request can be built, whether
\* the transport answers, and the answer: status, body and whether the body
\* can be read.
RequestInputs ==
    [body : {"nil", "ok", "unmarshalable"}, newRequest : BOOLEAN,
     transport : BOOLEAN, status : Statuses, readOK : BOOLEAN, doc : Docs]

Result(resp, err, sent) == [resp |-> resp, err |-> err, sent |-> sent]

\* doRequestFailure without the overwrite of the decoded status code.
doRequestFailure_KeepBodyStatus(status, readOK, doc) ==
    IF ~readOK
    THEN APIError(status, "READ_ERROR", "failed to read response body")
    ELSE IF ~UnmarshalAPIError(doc).ok
         THEN APIError(status, "UNKNOWN", doc.text)
         ELSE UnmarshalAPIError(doc).val

\* doRequestFailure with a fixed message in place of the raw body text.
doRequestFailure_UnknownWithoutBody(status, readOK, doc) ==
    IF ~readOK
    THEN APIError(status, "READ_ERROR", "failed to read response body")
    ELSE IF ~UnmarshalAPIError(doc).ok
         THEN APIError(status, "UNKNOWN", "unknown error")
         ELSE [UnmarshalAPIError(doc).val EXCEPT !.StatusCode = status]

\* The non-success branch of doRequest.
doRequestFailure(status, readOK, doc) ==
    IF ~readOK
    THEN APIError(status, "READ_ERROR", "failed to read response body")
    ELSE IF ~UnmarshalAPIError(doc).ok
         THEN APIError(status, "UNKNOWN", doc.text)
         ELSE [UnmarshalAPIError(doc).val EXCEPT !.StatusCode = status]

\* Whether doRequest takes the response for a success.
doRequestIsSuccess(status) == status = StatusOK

\* doRequest without the return on a response that does not decode.
doRequest_DecodeErrorDropped(in) ==
    IF in.body = "unmarshalable"
    THEN Result("nil", LocalError("marshal"), FALSE)
    ELSE IF ~in.newRequest
    THEN Result("nil", LocalError("create"), FALSE)
    ELSE IF ~in.transport
    THEN Result("nil", LocalError("execute"), TRUE)
    ELSE IF ~doRequestIsSuccess(in.status)
    THEN Result("nil", doRequestFailure(in.status, in.readOK, in.doc), TRUE)
    ELSE IF ~in.readOK
    THEN Result("nil", LocalError("decode"), TRUE)
    ELSE Result(UnmarshalValue(in.doc).val, NoError, TRUE)

\* doRequest: resp is the decoded response ("nil": none), err the error,
\* sent whether httpClient.Do was called.
doRequest(in) ==
    IF in.body = "unmarshalable"
    THEN Result("nil", LocalError("marshal"), FALSE)
    ELSE IF ~in.newRequest
    THEN Result("nil", LocalError("create"), FALSE)
    ELSE IF ~in.transport
    THEN Result("nil", LocalError("execute"), TRUE)
    ELSE IF ~doRequestIsSuccess(in.status)
    THEN Result("nil", doRequestFailure(in.status, in.readOK, in.doc), TRUE)
    ELSE IF ~in.readOK \/ ~UnmarshalValue(in.doc).ok
    THEN Result("nil", LocalError("decode"), TRUE)
    ELSE Result(UnmarshalValue(in.doc).val, NoError, TRUE)

\* handleError(resp): the classification Stream applies to a refused stream.
handleError(status, readOK, doc) ==
    IF ~readOK
    THEN APIError(status, "READ_ERROR", "failed to read response body")
    ELSE IF ~UnmarshalAPIError(doc).ok
         THEN APIError(status, "UNKNOWN", doc.text)
         ELSE fillSentinel([UnmarshalAPIError(doc).val EXCEPT !.StatusCode = status])

---------------------------------------------------------------------------
\* The stream decoder: lines and chunks

NoDoc == Doc("none", "", 0, "")

\* One line of the response body, as ReadString returns it and TrimSpace
\* leaves it: a line without the "data: " prefix (comment, keep-alive, blank
\* separator), the line "data: [DONE]", or a data line with a payload.
Line(kind, doc) == [kind |-> kind, doc |-> doc]

\* The machine codes a streamed error frame carries in the model: one of the
\* table and one the table does not know.
StreamCodes == {"PROVIDER_ERROR", "SOMETHING_ELSE"}

Lines ==
    {Line("comment", NoDoc), Line("done", NoDoc)}
    \cup {Line("data", Doc("content", "", 0, "delta"))}
    \cup {Line("data", Doc("content", "", 0, QuotedText))}
    \cup {Line("data", Doc("nested", "", 0, "delta"))}
    \cup {Line("data", Doc("bad", "", 0, "not json"))}
    \cup {Line("data", Doc("errobj", "", 0, "nested"))}
    \cup {Line("data", Doc("apierr", c, 0, "boom")) : c \in StreamCodes}

ContentLine == Line("data", Doc("content", "", 0, "delta"))

DoneLine == Line("done", NoDoc)

ErrorFrame(c) == Line("data", Doc("apierr", c, 0, "boom"))

\* Sequences over S of length 0..n.
SeqsUpTo(S, n) == UNION {[1..k -> S] : k \in 0..n}

\* The response bodies of a stream.
Wires == SeqsUpTo(Lines, MaxLines)

\* How the body ends after its last line: the server closes it ("eof"), the
\* connection drops ("fail"), or the server sends one more data line without
\* its line terminator and closes ("partial"). Until then the body is
\* "open": the server is silent and keeps the connection.
EndModes == {"eof", "fail", "partial"}

\* The last bytes of a body that ends "partial": a content data line without
\* its line terminator. ReadString returns it together with io.EOF.
PartialLine == ContentLine

\* A StreamChunk: idx is the position in the body of the line it was decoded
\* from (0: from no line), val its payload, Err its error.
Chunk(idx, val, err) == [idx |-> idx, val |-> val, Err |-> err]

NoChunk == Chunk(0, "nil", NoError)

IsErrChunk(c) == c.Err.kind # "nil"

\* strings.HasPrefix(line, "data: ")
HasDataPrefix(line) == line.kind \in {"data", "done"}

\* data == "[DONE]"
IsDoneToken(line) == line.kind = "done"

\* The substring search of the read loop, worked out once for the payload
\* of every data line.
ErrorKeyFound ==
    [d \in {l.doc : l \in Lines} |->
        Contains(Raw(d), <<"q", "error", "q", ":">>)]

\* strings.Contains(data, "\"error\":")
ContainsErrorKey(doc) == ErrorKeyFound[doc]

\* What the read loop does with line number i once ReadString returned it:
\* "continue" (read on), "return", "emit" a chunk and read on, or "emitReturn"
\* a chunk and return. term names the way the stream ends on a return.
Step(act, chunk, term) == [act |-> act, chunk |-> chunk, term |-> term]

\* ProcessLine without the [DONE] branch: the token goes to the decoder.
ProcessLine_NoDone(line, i) ==
    IF ~HasDataPrefix(line)
    THEN Step("continue", NoChunk, "")
    ELSE IF ContainsErrorKey(line.doc) /\ UnmarshalAPIError(line.doc).ok
    THEN Step("emitReturn",
              Chunk(i, "nil", fillSentinel(UnmarshalAPIError(line.doc).val)),
              "errframe")
    ELSE IF ~UnmarshalValue(line.doc).ok
    THEN Step("emitReturn", Chunk(i, "nil", LocalError("unmarshal")), "decode")
    ELSE Step("emit", Chunk(i, UnmarshalValue(line.doc).val, NoError), "")

\* ProcessLine without the prefix check: every line is taken for a payload.
ProcessLine_NoPrefixCheck(line, i) ==
    IF IsDoneToken(line)
    THEN Step("return", NoChunk, "done")
    ELSE IF ~UnmarshalValue(line.doc).ok
    THEN Step("emitReturn", Chunk(i, "nil", LocalError("unmarshal")), "decode")
    ELSE Step("emit", Chunk(i, UnmarshalValue(line.doc).val, NoError), "")

\* ProcessLine with a chunk emitted for the [DONE] frame before the return.
ProcessLine_DoneEmits(line, i) ==
    IF ~HasDataPrefix(line)
    THEN Step("continue", NoChunk, "")
    ELSE IF IsDoneToken(line)
    THEN Step("emitReturn", Chunk(i, "zero", NoError), "done")
    ELSE IF ContainsErrorKey(line.doc) /\ UnmarshalAPIError(line.doc).ok
    THEN Step("emitReturn",
              Chunk(i, "nil", fillSentinel(UnmarshalAPIError(line.doc).val)),
              "errframe")
    ELSE IF ~UnmarshalValue(line.doc).ok
    THEN Step("emitReturn", Chunk(i, "nil", LocalError("unmarshal")), "decode")
    ELSE Step("emit", Chunk(i, UnmarshalValue(line.doc).val, NoError), "")

\* ProcessLine without the return after the error frame's chunk.
ProcessLine_ErrorContinues(line, i) ==
    IF ~HasDataPrefix(line)
    THEN Step("continue", NoChunk, "")
    ELSE IF IsDoneToken(line)
    THEN Step("return", NoChunk, "done")
    ELSE IF ContainsErrorKey(line.doc) /\ UnmarshalAPIError(line.doc).ok
    THEN Step("emit",
              Chunk(i, "nil", fillSentinel(UnmarshalAPIError(line.doc).val)),
              "")
    ELSE IF ~UnmarshalValue(line.doc).ok
    THEN Step("emitReturn", Chunk(i, "nil", LocalError("unmarshal")), "decode")
    ELSE Step("emit", Chunk(i, UnmarshalValue(line.doc).val, NoError), "")

ProcessLine(line, i) ==
    IF ~HasDataPrefix(line)
    THEN Step("continue", NoChunk, "")
    ELSE IF IsDoneToken(line)
    THEN Step("return", NoChunk, "done")
    ELSE IF ContainsErrorKey(line.doc) /\ UnmarshalAPIError(line.doc).ok
    THEN Step("emitReturn",
              Chunk(i, "nil", fillSentinel(UnmarshalAPIError(line.doc).val)),
              "errframe")
    ELSE IF ~UnmarshalValue(line.doc).ok
    THEN Step("emitReturn", Chunk(i, "nil", LocalError("unmarshal")), "decode")
    ELSE Step("emit", Chunk(i, UnmarshalValue(line.doc).val, NoError), "")

\* HandleReadError without the look at ctx.Err().
HandleReadError_NoCtxCheck(err, cancelled) ==
    IF err = "EOF"
    THEN Step("return", NoChunk, "eof")
    ELSE Step("emitReturn", Chunk(0, "nil", LocalError("read")), "readfail")

\* HandleReadError without the test for io.EOF.
HandleReadError_EofIsFailure(err, cancelled) ==
    IF cancelled
    THEN Step("return", NoChunk, "cancel")
    ELSE Step("emitReturn", Chunk(0, "nil", LocalError("read")), "readfail")

\* What the read loop does with an error of ReadString.
HandleReadError(err, cancelled) ==
    IF cancelled
    THEN Step("return", NoChunk, "cancel")
    ELSE IF err = "EOF"
    THEN Step("return", NoChunk, "eof")
    ELSE Step("emitReturn", Chunk(0, "nil", LocalError("read")), "readfail")

---------------------------------------------------------------------------
\* State

VARIABLES
    call,          \* which operation ran: "none", "request", "stream"
    reqIn,         \* doRequest: what the call met
    reqOut,        \* doRequest: what it returned
    strIn,         \* Stream: what the call met until the response arrived
    strOut,        \* Stream: what it returned (a channel or an error)
    wire,          \* the lines of the response body
    endMode,       \* "open", or how the body ended after its last line
    pos,           \* number of lines ReadString has returned
    ctxDone,       \* the governing context is cancelled
    bodyCloses,    \* number of calls of resp.Body.Close
    pc,            \* the reader goroutine's position
    wpc,           \* the watcher goroutine's position
    rerr,          \* the error ReadString returned, while it is handled
    pending,       \* the chunk the reader is sending
    afterSend,     \* what the reader does once the send completes
    term,          \* the way the reader returned
    chState,       \* the chunk channel: "none", "open", "closed"
    chanCloses,    \* number of calls of close(chunks)
    sentOnClosed,  \* a send completed on the closed channel
    received,      \* the chunks the consumer received, in order
    consumer,      \* the consumer: "recv" (receiving) or "gone" (stopped)
    stalledAtCancel, \* the context was cancelled on a stalled stream that
                     \* had delivered a chunk
    lateChunk,     \* a chunk was received after such a cancellation
    errIn,         \* fillSentinel: the APIError as it was built
    errVal,        \* fillSentinel: the APIError now (the receiver, in place)
    fills,         \* fillSentinel: number of calls on errVal
    client,        \* concurrent calls: the shared Client's configuration
    cBody,         \* concurrent calls: the request body each caller passed
    cpc,           \* concurrent calls: each call's position in doRequest
    cReq,          \* concurrent calls: each call's *http.Request
    cResp,         \* concurrent calls: what httpClient.Do returned to each
    cOut,          \* concurrent calls: what each call returned
    pStream,       \* Create and Stream: the Stream field of the shared params
    fpc,           \* Create and Stream: each call's position
    fSent          \* Create and Stream: the stream field each request carried

vars ==
    <<call, reqIn, reqOut, strIn, strOut, wire, endMode, pos, ctxDone,
      bodyCloses, pc, wpc, rerr, pending, afterSend, term, chState,
      chanCloses, sentOnClosed, received, consumer, stalledAtCancel,
      lateChunk, errIn, errVal, fills, client, cBody, cpc, cReq, cResp,
      cOut, pStream, fpc, fSent>>

fillVars == <<errIn, errVal, fills>>

callVars == <<client, cBody, cpc, cReq, cResp, cOut>>

flagVars == <<pStream, fpc, fSent>>

\* The Client as New builds it.
NewClient == [ApiKey |-> "key", BaseURL |-> "base"]

NoHTTPRequest == [url |-> "", key |-> "", body |-> ""]

\* What httpClient.Do returned: nothing yet, a transport error, or a response.
NoAnswer ==
    [transport |-> FALSE, status |-> 0, readOK |-> FALSE, doc |-> NoDoc,
     set |-> FALSE]

\* The answers of the server to a request: each carries the text of the
\* request body it answers, so that an answer is told from another's.
Answers(req) ==
    {[transport |-> FALSE, status |-> 0, readOK |-> FALSE, doc |-> NoDoc,
      set |-> TRUE],
     [transport |-> TRUE, status |-> StatusOK, readOK |-> TRUE,
      doc |-> Doc("content", "", 0, req.body), set |-> TRUE],
     [transport |-> TRUE, status |-> 429, readOK |-> TRUE,
      doc |-> Doc("apierr", "RATE_LIMIT_EXCEEDED", 0, req.body), set |-> TRUE],
     [transport |-> TRUE, status |-> 503, readOK |-> TRUE,
      doc |-> Doc("bad", "", 0, req.body), set |-> TRUE]}

\* The bodies callers pass.
Bodies == {"a", "b"}

\* The state of the operations other than Stream.
reqVars == <<reqIn, reqOut, fillVars, callVars, flagVars>>

streamVars ==
    <<strIn, strOut, wire, endMode, pos, ctxDone, bodyCloses, pc, wpc, rerr,
      pending, afterSend, term, chState, chanCloses, sentOnClosed, received,
      consumer, stalledAtCancel, lateChunk>>

bodyClosed == bodyCloses > 0

NoRequest ==
    [body |-> "nil", newRequest |-> TRUE, transport |-> TRUE,
     status |-> StatusOK, readOK |-> TRUE, doc |-> NoDoc]

NoStream ==
    [marshal |-> TRUE, newRequest |-> TRUE, transport |-> TRUE,
     status |-> StatusOK, readOK |-> TRUE, doc |-> NoDoc]

Init ==
    /\ call = "none"
    /\ reqIn = NoRequest
    /\ reqOut = Result("nil", NoError, FALSE)
    /\ strIn = NoStream
    /\ strOut = [ch |-> FALSE, err |-> NoError]
    /\ wire = <<>>
    /\ endMode = "open"
    /\ pos = 0
    /\ ctxDone = FALSE
    /\ bodyCloses = 0
    /\ pc = "none"
    /\ wpc = "none"
    /\ rerr = ""
    /\ pending = NoChunk
    /\ afterSend = ""
    /\ term = ""
    /\ chState = "none"
    /\ chanCloses = 0
    /\ sentOnClosed = FALSE
    /\ received = <<>>
    /\ consumer = "recv"
    /\ stalledAtCancel = FALSE
    /\ lateChunk = FALSE
    /\ errIn = NoError
    /\ errVal = NoError
    /\ fills = 0
    /\ client = NewClient
    /\ cBody = <<>>
    /\ cpc = <<>>
    /\ cReq = <<>>
    /\ cResp = <<>>
    /\ cOut = <<>>
    /\ pStream = FALSE
    /\ fpc = [create |-> "off", stream |-> "off"]
    /\ fSent = [create |-> "none", stream |-> "none"]

---------------------------------------------------------------------------
\* Operations

\* One call of doRequest (through Create, Embeddings or a test).
DoRequest ==
    /\ call = "none"
    /\ \E in \in RequestInputs :
          /\ reqIn' = in
          /\ reqOut' = doRequest(in)
    /\ call' = "request"
    /\ UNCHANGED <<streamVars, flagVars, fillVars, callVars>>

\* An APIError value is built (decoded from a body, or a literal).
NewAPIError ==
    /\ call = "none"
    /\ \E e \in APIErrors :
          /\ errIn' = e
          /\ errVal' = e
    /\ fills' = 0
    /\ call' = "error"
    /\ UNCHANGED <<reqIn, reqOut, streamVars, flagVars, callVars>>

\* One call of fillSentinel on the value.
FillSentinel ==
    /\ call = "error"
    /\ fills < MaxFills
    /\ errVal' = fillSentinel(errVal)
    /\ fills' = fills + 1
    /\ UNCHANGED <<call, errIn, reqIn, reqOut, streamVars, flagVars,
                   callVars>>

\* Callers start n calls of doRequest on the one client, each with its own
\* request body.
StartCalls ==
    /\ call = "none"
    /\ \E n \in 1..MaxCalls :
          /\ cBody' \in [1..n -> Bodies]
          /\ cpc' = [i \in 1..n |-> "start"]
          /\ cReq' = [i \in 1..n |-> NoHTTPRequest]
          /\ cResp' = [i \in 1..n |-> NoAnswer]
          /\ cOut' = [i \in 1..n |-> Result("nil", NoError, FALSE)]
    /\ call' = "calls"
    /\ UNCHANGED <<client, reqIn, reqOut, fillVars, streamVars, flagVars>>

\* Call i builds its request: the URL from c.BaseURL, the body from its own
\* argument, the Authorization header from c.ApiKey.
CallBuild ==
    /\ call = "calls"
    /\ \E i \in DOMAIN cpc :
          /\ cpc[i] = "start"
          /\ cReq' = [cReq EXCEPT ![i] =
                         [url |-> client.BaseURL, key |-> client.ApiKey,
                          body |-> cBody[i]]]
          /\ cpc' = [cpc EXCEPT ![i] = "built"]
    /\ UNCHANGED <<call, client, cBody, cResp, cOut, reqIn, reqOut, fillVars,
                   streamVars, flagVars>>

\* Call i runs httpClient.Do: the server answers the request it was sent.
CallDo ==
    /\ call = "calls"
    /\ \E i \in DOMAIN cpc :
          /\ cpc[i] = "built"
          /\ \E a \in Answers(cReq[i]) :
                cResp' = [cResp EXCEPT ![i] = a]
          /\ cpc' = [cpc EXCEPT ![i] = "sent"]
    /\ UNCHANGED <<call, client, cBody, cReq, cOut, reqIn, reqOut, fillVars,
                   streamVars, flagVars>>

\* The answer call i classifies: one held in a slot all the calls share.
AnswerOf_SharedSlot(i) ==
    cResp[CHOOSE j \in DOMAIN cResp :
              /\ cResp[j].set
              /\ \A k \in DOMAIN cResp : cResp[k].set => j <= k]

\* The answer call i classifies: its own local resp.
AnswerOf(i) == cResp[i]

\* Call i classifies the answer and returns.
CallReturn ==
    /\ call = "calls"
    /\ \E i \in DOMAIN cpc :
          /\ cpc[i] = "sent"
          /\ cOut' = [cOut EXCEPT ![i] =
                         doRequest([body |-> "ok", newRequest |-> TRUE,
                                    transport |-> AnswerOf(i).transport,
                                    status |-> AnswerOf(i).status,
                                    readOK |-> AnswerOf(i).readOK,
                                    doc |-> AnswerOf(i).doc])]
          /\ cpc' = [cpc EXCEPT ![i] = "done"]
    /\ UNCHANGED <<call, client, cBody, cReq, cResp, reqIn, reqOut, fillVars,
                   streamVars, flagVars>>

\* Callers start Create, Stream or both on one client with the same
\* *ChatParams, whose Stream field holds what the caller put there.
StartFlagCalls ==
    /\ call = "none"
    /\ pStream' \in BOOLEAN
    /\ \E c, t \in {"off", "start"} :
          /\ (c = "start" \/ t = "start")
          /\ fpc' = [create |-> c, stream |-> t]
    /\ fSent' = [create |-> "none", stream |-> "none"]
    /\ call' = "flags"
    /\ UNCHANGED <<reqIn, reqOut, fillVars, callVars, streamVars>>

\* The stream field of the JSON json.Marshal writes for the params.
MarshalStream(b) == IF b THEN "true" ELSE "false"

\* Create: params.Stream = false.
CreateSetFlag ==
    /\ call = "flags"
    /\ fpc.create = "start"
    /\ pStream' = FALSE
    /\ fpc' = [fpc EXCEPT !.create = "set"]
    /\ UNCHANGED <<call, fSent, reqIn, reqOut, fillVars, callVars, streamVars>>

\* Create: doRequest marshals the params and sends the request.
CreateMarshal ==
    /\ call = "flags"
    /\ fpc.create = "set"
    /\ fSent' = [fSent EXCEPT !.create = MarshalStream(pStream)]
    /\ fpc' = [fpc EXCEPT !.create = "sent"]
    /\ UNCHANGED <<call, pStream, reqIn, reqOut, fillVars, callVars,
                   streamVars>>

\* Stream: params.Stream = true.
StreamSetFlag ==
    /\ call = "flags"
    /\ fpc.stream = "start"
    /\ pStream' = TRUE
    /\ fpc' = [fpc EXCEPT !.stream = "set"]
    /\ UNCHANGED <<call, fSent, reqIn, reqOut, fillVars, callVars, streamVars>>

\* Stream: json.Marshal(params), and the request is sent.
StreamMarshal ==
    /\ call = "flags"
    /\ fpc.stream = "set"
    /\ fSent' = [fSent EXCEPT !.stream = MarshalStream(pStream)]
    /\ fpc' = [fpc EXCEPT !.stream = "sent"]
    /\ UNCHANGED <<call, pStream, reqIn, reqOut, fillVars, callVars,
                   streamVars>>

\* What one call of Stream meets before the body is read.
StreamInputs ==
    [marshal : BOOLEAN, newRequest : BOOLEAN, transport : BOOLEAN,
     status : Statuses, readOK : BOOLEAN, doc : Docs]

\* Stream up to its return: the error it returns (none when it returns the
\* channel).
streamStartError(in) ==
    IF ~in.marshal THEN LocalError("marshal")
    ELSE IF ~in.newRequest THEN LocalError("create")
    ELSE IF ~in.transport THEN LocalError("execute")
    ELSE IF in.status # StatusOK THEN handleError(in.status, in.readOK, in.doc)
    ELSE NoError

\* StreamRefused without the resp.Body.Close() of the non-200 branch.
StreamRefused_BodyLeftOpen ==
    /\ call = "none"
    /\ \E in \in StreamInputs :
          /\ streamStartError(in) # NoError
          /\ strIn' = in
          /\ strOut' = [ch |-> FALSE, err |-> streamStartError(in)]
    /\ call' = "stream"
    /\ UNCHANGED <<reqVars, wire, endMode, pos, ctxDone, bodyCloses, pc, wpc,
                   rerr, pending, afterSend, term, chState, chanCloses,
                   sentOnClosed, received, consumer, stalledAtCancel,
                   lateChunk>>

\* A call of Stream the server refuses, or that fails before a response.
StreamRefused ==
    /\ call = "none"
    /\ \E in \in StreamInputs :
          /\ streamStartError(in) # NoError
          /\ strIn' = in
          /\ strOut' = [ch |-> FALSE, err |-> streamStartError(in)]
          /\ bodyCloses' = IF in.marshal /\ in.newRequest /\ in.transport
                           THEN 1 ELSE 0
    /\ call' = "stream"
    /\ UNCHANGED <<reqVars, wire, endMode, pos, ctxDone, pc, wpc, rerr,
                   pending, afterSend, term, chState, chanCloses,
                   sentOnClosed, received, consumer, stalledAtCancel,
                   lateChunk>>

\* A call of Stream the server accepts: the channel is made, the reader
\* goroutine is spawned and the channel is returned.
StreamAccepted ==
    /\ call = "none"
    /\ \E w \in Wires : wire' = w
    /\ strIn' = NoStream
    /\ strOut' = [ch |-> TRUE, err |-> streamStartError(NoStream)]
    /\ chState' = "open"
    /\ pc' = "spawned"
    /\ call' = "stream"
    /\ UNCHANGED <<reqVars, endMode, pos, ctxDone, bodyCloses, wpc, rerr,
                   pending, afterSend, term, chanCloses, sentOnClosed,
                   received, consumer, stalledAtCancel, lateChunk>>

\* The reader goroutine starts: it registers its deferred calls, spawns the
\* watcher goroutine and wraps the body in a bufio.Reader.
ReaderStart ==
    /\ pc = "spawned"
    /\ pc' = "read"
    /\ wpc' = "waiting"
    /\ UNCHANGED <<call, reqVars, strIn, strOut, wire, endMode, pos, ctxDone,
                   bodyCloses, rerr, pending, afterSend, term, chState,
                   chanCloses, sentOnClosed, received, consumer,
                   stalledAtCancel, lateChunk>>

\* Take with a send that does not wait for the receiver (a buffered
\* channel): after an emit the reader reads on at once.
Take_SendDoesNotBlock(step) ==
    /\ pending' = step.chunk
    /\ term' = step.term
    /\ CASE step.act = "continue"   -> pc' = "read" /\ afterSend' = ""
         [] step.act = "return"     -> pc' = "closeBody" /\ afterSend' = ""
         [] step.act = "emit"       -> pc' = "read" /\ afterSend' = ""
         [] step.act = "emitReturn" -> pc' = "send" /\ afterSend' = "closeBody"

\* The reader acts on a step of the read loop.
Take(step) ==
    /\ pending' = step.chunk
    /\ term' = step.term
    /\ CASE step.act = "continue"   -> pc' = "read" /\ afterSend' = ""
         [] step.act = "return"     -> pc' = "closeBody" /\ afterSend' = ""
         [] step.act = "emit"       -> pc' = "send" /\ afterSend' = "read"
         [] step.act = "emitReturn" -> pc' = "send" /\ afterSend' = "closeBody"

\* ReadString returns the next line and the loop body runs up to its next
\* blocking point. A line is returned while the body is open, and also after
\* the body was closed when the bufio.Reader had buffered it before.
ReadLine ==
    /\ pc = "read"
    /\ pos < Len(wire)
    /\ pos' = pos + 1
    /\ Take(ProcessLine(wire[pos + 1], pos + 1))
    /\ UNCHANGED <<call, reqVars, strIn, strOut, wire, endMode, ctxDone,
                   bodyCloses, wpc, rerr, chState, chanCloses, sentOnClosed,
                   received, consumer, stalledAtCancel, lateChunk>>

\* The body ends under a reader that has consumed all its lines: the server
\* closes it or the connection drops. While neither happens the read
\* blocks: the stream is stalled.
BodyEnds ==
    /\ pc = "read"
    /\ pos = Len(wire)
    /\ endMode = "open"
    /\ \E m \in EndModes : endMode' = m
    /\ UNCHANGED <<call, reqVars, strIn, strOut, wire, pos, ctxDone,
                   bodyCloses, pc, wpc, rerr, pending, afterSend, term,
                   chState, chanCloses, sentOnClosed, received, consumer,
                   stalledAtCancel, lateChunk>>

\* ReadString returns an error: the body was closed under the reader, or the
\* body is exhausted and has ended or broken.
ReadFails ==
    /\ pc = "read"
    /\ \/ bodyClosed /\ rerr' = "closed"
       \/ ~bodyClosed /\ pos = Len(wire) /\ endMode = "eof" /\ rerr' = "EOF"
       \/ ~bodyClosed /\ pos = Len(wire) /\ endMode = "partial" /\ rerr' = "EOF"
       \/ ~bodyClosed /\ pos = Len(wire) /\ endMode = "fail" /\ rerr' = "reset"
    /\ pc' = "readErr"
    /\ UNCHANGED <<call, reqVars, strIn, strOut, wire, endMode, pos, ctxDone,
                   bodyCloses, wpc, pending, afterSend, term, chState,
                   chanCloses, sentOnClosed, received, consumer,
                   stalledAtCancel, lateChunk>>

\* The reader handles the read error: it looks at ctx.Err() now.
CheckReadError ==
    /\ pc = "readErr"
    /\ Take(HandleReadError(rerr, ctxDone))
    /\ rerr' = ""
    /\ UNCHANGED <<call, reqVars, strIn, strOut, wire, endMode, pos, ctxDone,
                   bodyCloses, wpc, chState, chanCloses, sentOnClosed,
                   received, consumer, stalledAtCancel, lateChunk>>

\* The send on the unbuffered channel completes: the consumer receives.
Deliver ==
    /\ pc = "send"
    /\ consumer = "recv"
    /\ received' = Append(received, pending)
    /\ sentOnClosed' = (sentOnClosed \/ chState = "closed")
    /\ lateChunk' = (lateChunk \/ stalledAtCancel)
    /\ pending' = NoChunk
    /\ pc' = afterSend
    /\ afterSend' = ""
    /\ UNCHANGED <<call, reqVars, strIn, strOut, wire, endMode, pos, ctxDone,
                   bodyCloses, wpc, rerr, term, chState, chanCloses, consumer,
                   stalledAtCancel>>

\* The reader's cleanup without the deferred resp.Body.Close().
ReaderCloseBody_NoClose ==
    /\ pc = "closeBody"
    /\ pc' = "closeChan"
    /\ UNCHANGED <<call, reqVars, strIn, strOut, wire, endMode, pos, ctxDone,
                   bodyCloses, wpc, rerr, pending, afterSend, term, chState,
                   chanCloses, sentOnClosed, received, consumer,
                   stalledAtCancel, lateChunk>>

\* The reader's deferred resp.Body.Close().
ReaderCloseBody ==
    /\ pc = "closeBody"
    /\ bodyCloses' = bodyCloses + 1
    /\ pc' = "closeChan"
    /\ UNCHANGED <<call, reqVars, strIn, strOut, wire, endMode, pos, ctxDone,
                   wpc, rerr, pending, afterSend, term, chState, chanCloses,
                   sentOnClosed, received, consumer, stalledAtCancel,
                   lateChunk>>

\* close(chunks) called in the loop instead of deferred: the reader reads on.
ReaderCloseChan_NoReturn ==
    /\ pc = "closeChan"
    /\ chState' = "closed"
    /\ chanCloses' = chanCloses + 1
    /\ pc' = "read"
    /\ UNCHANGED <<call, reqVars, strIn, strOut, wire, endMode, pos, ctxDone,
                   bodyCloses, wpc, rerr, pending, afterSend, term,
                   sentOnClosed, received, consumer, stalledAtCancel,
                   lateChunk>>

\* The reader's deferred close(chunks); the goroutine ends.
ReaderCloseChan ==
    /\ pc = "closeChan"
    /\ chState' = "closed"
    /\ chanCloses' = chanCloses + 1
    /\ pc' = "done"
    /\ UNCHANGED <<call, reqVars, strIn, strOut, wire, endMode, pos, ctxDone,
                   bodyCloses, wpc, rerr, pending, afterSend, term,
                   sentOnClosed, received, consumer, stalledAtCancel,
                   lateChunk>>

\* The watcher without its resp.Body.Close().
WatcherFire_NoClose ==
    /\ wpc = "waiting"
    /\ ctxDone
    /\ wpc' = "done"
    /\ UNCHANGED <<call, reqVars, strIn, strOut, wire, endMode, pos, ctxDone,
                   bodyCloses, pc, rerr, pending, afterSend, term, chState,
                   chanCloses, sentOnClosed, received, consumer,
                   stalledAtCancel, lateChunk>>

\* The watcher goroutine: <-ctx.Done() returns, it closes the body and ends.
WatcherFire ==
    /\ wpc = "waiting"
    /\ ctxDone
    /\ bodyCloses' = bodyCloses + 1
    /\ wpc' = "done"
    /\ UNCHANGED <<call, reqVars, strIn, strOut, wire, endMode, pos, ctxDone,
                   pc, rerr, pending, afterSend, term, chState, chanCloses,
                   sentOnClosed, received, consumer, stalledAtCancel,
                   lateChunk>>

\* The stream is stalled: the reader is blocked in a read on an open body
\* whose lines it has all consumed and that the server has neither ended nor
\* broken.
Stalled ==
    /\ pc = "read"
    /\ pos = Len(wire)
    /\ endMode = "open"
    /\ ~bodyClosed

\* The caller cancels the context of an established stream.
Cancel ==
    /\ strOut.ch
    /\ ~ctxDone
    /\ ctxDone' = TRUE
    /\ stalledAtCancel' = (Stalled /\ Len(received) >= 1)
    /\ UNCHANGED <<call, reqVars, strIn, strOut, wire, endMode, pos,
                   bodyCloses, pc, wpc, rerr, pending, afterSend, term,
                   chState, chanCloses, sentOnClosed, received, consumer,
                   lateChunk>>

\* The consumer stops receiving from the channel (it returns, or breaks out
\* of its loop) while the channel is open.
ConsumerStop ==
    /\ chState = "open"
    /\ consumer = "recv"
    /\ consumer' = "gone"
    /\ UNCHANGED <<call, reqVars, strIn, strOut, wire, endMode, pos, ctxDone,
                   bodyCloses, pc, wpc, rerr, pending, afterSend, term,
                   chState, chanCloses, sentOnClosed, received,
                   stalledAtCancel, lateChunk>>

Next ==
    \/ DoRequest
    \/ NewAPIError
    \/ FillSentinel
    \/ StartCalls
    \/ CallBuild
    \/ CallDo
    \/ CallReturn
    \/ StartFlagCalls
    \/ CreateSetFlag
    \/ CreateMarshal
    \/ StreamSetFlag
    \/ StreamMarshal
    \/ StreamRefused
    \/ StreamAccepted
    \/ ReaderStart
    \/ ReadLine
    \/ BodyEnds
    \/ ReadFails
    \/ CheckReadError
    \/ Deliver
    \/ ReaderCloseBody
    \/ ReaderCloseChan
    \/ WatcherFire
    \/ Cancel
    \/ ConsumerStop

Spec == Init /\ [][Next]_vars

\* The two goroutines run whenever they can; a send completes whenever the
\* consumer is receiving. Nothing obliges the caller to cancel, the consumer
\* to keep receiving, or the server to end the body.
ReaderStep ==
    ReaderStart \/ ReadLine \/ ReadFails \/ CheckReadError
    \/ ReaderCloseBody \/ ReaderCloseChan

FairSpec ==
    Spec /\ WF_vars(ReaderStep) /\ WF_vars(Deliver) /\ WF_vars(WatcherFire)

---------------------------------------------------------------------------
\* Properties

Established == strOut.ch

Closed == chState = "closed"

Last(s) == s[Len(s)]

ErrCount(s) == Cardinality({i \in DOMAIN s : IsErrChunk(s[i])})

ContentChunk(i) == Chunk(i, "delta", NoError)

\* A body of N >= 0 content frames followed by the [DONE] frame.
RoundTripBody(w) ==
    /\ Len(w) >= 1
    /\ w[Len(w)] = DoneLine
    /\ \A i \in 1..(Len(w) - 1) : w[i] = ContentLine

\* C1: a body of N decodable content frames followed by [DONE] delivers the
\* chunks of the frames in arrival order and nothing else: at every moment
\* the chunks received are the chunks of the first frames, none of them an
\* error chunk, and when the channel is closed without the stream having been
\* cancelled, exactly N chunks were received and the reader returned on
\* [DONE].
C1_RoundTrip ==
    (Established /\ RoundTripBody(wire)) =>
        /\ Len(received) <= Len(wire) - 1
        /\ \A i \in DOMAIN received : received[i] = ContentChunk(i)
        /\ (Closed /\ term # "cancel") =>
              /\ term = "done"
              /\ Len(received) = Len(wire) - 1

C1_Witness ==
    /\ Closed
    /\ RoundTripBody(wire)
    /\ Len(wire) = 3
    /\ received = <<ContentChunk(1), ContentChunk(2)>>

\* C2: once the context of an established stream is cancelled, the channel
\* is eventually closed, and the reader answers a read error under a
\* cancelled context with no chunk.
C2_CancelCloses ==
    /\ (Established /\ ctxDone) ~> Closed
    /\ [][(pc = "readErr" /\ ctxDone) => pending' = NoChunk]_vars

\* C3: when the context is cancelled on a stalled stream that has delivered
\* at least one chunk, no chunk is delivered after the cancellation (so no
\* error chunk either) and the channel is eventually closed.
C3_StalledCancel ==
    /\ [](stalledAtCancel => ~lateChunk)
    /\ stalledAtCancel ~> Closed

C3_Witness ==
    /\ stalledAtCancel
    /\ Len(received) >= 1
    /\ Closed
    /\ term = "cancel"
    /\ ErrCount(received) = 0

\* A body of one content frame, then an error frame with a code of the
\* sentinel table, then anything.
MidErrorBody(w) ==
    /\ Len(w) >= 2
    /\ w[1] = ContentLine
    /\ \E c \in SentinelCodes : w[2] = ErrorFrame(c)

\* C4: on a body of one content frame followed by an error frame with a code
\* of the sentinel table, the reader never reads past the error frame; the
\* first chunk received is the content chunk, the second is the error chunk,
\* an API error that matches the sentinel of the frame's code, there is no
\* third; and when the channel is closed without the stream having been
\* cancelled both were received.
C4_MidStreamError ==
    (Established /\ MidErrorBody(wire)) =>
        /\ pos <= 2
        /\ Len(received) <= 2
        /\ Len(received) >= 1 => received[1] = ContentChunk(1)
        /\ Len(received) = 2 =>
              /\ received[2].idx = 2
              /\ received[2].Err.Code = wire[2].doc.code
              /\ ErrorsIs(received[2].Err, sentinelTable[wire[2].doc.code])
        /\ (Closed /\ term # "cancel") =>
              /\ term = "errframe"
              /\ Len(received) = 2

C4_Witness ==
    /\ Closed
    /\ MidErrorBody(wire)
    /\ Len(wire) = 3
    /\ wire[3] = ContentLine
    /\ Len(received) = 2
    /\ ErrorsIs(received[2].Err, "ErrProvider")

\* C5: the channel is closed at most once, it is closed exactly when the
\* reader has returned (on every way of returning), and no send completes
\* on the closed channel: once it is closed the reader holds no chunk.
C5_ClosedOnce ==
    /\ chanCloses <= 1
    /\ ~sentOnClosed
    /\ Closed <=> (chanCloses = 1)
    /\ Closed <=> (pc = "done")
    /\ Closed => (pending = NoChunk /\ term # "")

C5_Witness ==
    /\ Closed
    /\ term = "cancel"
    /\ Len(received) >= 1
    /\ bodyCloses = 2

\* The line the reader read last makes the stream fail: an error frame that
\* decodes as an API error, or a payload that is not JSON.
FailingLine(l) ==
    /\ l.kind = "data"
    /\ \/ l.doc.kind = "bad"
       \/ ContainsErrorKey(l.doc) /\ UnmarshalAPIError(l.doc).ok

GotResponse ==
    /\ call = "request"
    /\ reqIn.body # "unmarshalable"
    /\ reqIn.newRequest
    /\ reqIn.transport

\* C7: a non-success response whose JSON body carries a code of the sentinel
\* table makes doRequest return an API error that matches the sentinel of
\* that code.
C7_SentinelMapping ==
    (/\ GotResponse
     /\ reqIn.status \notin 200..299
     /\ reqIn.readOK
     /\ reqIn.doc.kind = "apierr"
     /\ reqIn.doc.code \in SentinelCodes) =>
        /\ reqOut.err.kind = "api"
        /\ ErrorsIs(reqOut.err, sentinelTable[reqIn.doc.code])

\* C8: a response with a status in the 2xx range and a body that decodes
\* into the expected response type makes doRequest return the decoded
\* response and no error.
C8_SuccessClassification ==
    (/\ GotResponse
     /\ reqIn.status \in 200..299
     /\ reqIn.readOK
     /\ reqIn.doc.kind = "content") =>
        /\ reqOut.err = NoError
        /\ reqOut.resp = UnmarshalValue(reqIn.doc).val

\* The wrapped sentinel of an API error is set exactly when its code is in
\* the table.
WrappedIffKnown(e) ==
    e.kind = "api" => ((e.Err # NoSentinel) <=> (e.Code \in SentinelCodes))

\* C9: every API error handed to a caller (returned by doRequest, returned
\* by Stream, received as a stream chunk) has its wrapped sentinel set if and
\* only if its code is an entry of the sentinel table.
C9_WrappedIff ==
    /\ WrappedIffKnown(reqOut.err)
    /\ WrappedIffKnown(strOut.err)
    /\ \A i \in DOMAIN received : WrappedIffKnown(received[i].Err)

\* C10: doRequest answers every response it does not take for a success
\* with an API error whose status code is the response's HTTP status: code
\* READ_ERROR when the body cannot be read, code UNKNOWN when it is not JSON,
\* and the body's own code, but never the body's own status, when it is JSON.
C10_StatusNotForged ==
    /\ (call = "request" /\ reqOut.err.kind = "api") =>
          /\ GotResponse
          /\ reqOut.err.StatusCode = reqIn.status
    /\ (GotResponse /\ ~doRequestIsSuccess(reqIn.status)) =>
          /\ reqOut.err.kind = "api"
          /\ reqOut.err.StatusCode = reqIn.status
          /\ ~reqIn.readOK => reqOut.err.Code = "READ_ERROR"
          /\ (reqIn.readOK /\ reqIn.doc.kind = "bad") =>
                reqOut.err.Code = "UNKNOWN"
          /\ (reqIn.readOK /\ reqIn.doc.kind = "apierr") =>
                reqOut.err.Code = reqIn.doc.code

C10_Witness ==
    /\ GotResponse
    /\ reqIn.status = 401
    /\ reqIn.readOK
    /\ reqIn.doc.kind = "apierr"
    /\ reqIn.doc.status = 500
    /\ reqOut.err.kind = "api"
    /\ reqOut.err.StatusCode = 401

\* C11: a non-success response of doRequest whose body was read but does not
\* decode into the APIError shape (text that is not JSON, or JSON whose
\* "error" is no string) is returned as an APIError with code "UNKNOWN", the
\* raw body text as message, the real HTTP status and no wrapped sentinel.
C11_UnstructuredBody ==
    (/\ GotResponse
     /\ ~doRequestIsSuccess(reqIn.status)
     /\ reqIn.readOK
     /\ reqIn.doc.kind \in {"bad", "errobj"}) =>
        /\ reqOut.resp = "nil"
        /\ reqOut.err = APIError(reqIn.status, "UNKNOWN", reqIn.doc.text)

C11_Witness ==
    /\ GotResponse
    /\ reqIn.status = 503
    /\ reqIn.readOK
    /\ reqIn.doc = Doc("bad", "", 0, "not json")
    /\ reqOut.err.Code = "UNKNOWN"
    /\ reqOut.err.Message = "not json"
    /\ reqOut.err.StatusCode = 503

\* C12: every call of doRequest, on every path (marshal failure, request
\* construction failure, transport failure, non-success status, success with
\* a response that does not decode, success), returns exactly one of a
\* non-nil response and a non-nil error.
C12_ResponseXorError ==
    call = "request" =>
        /\ (reqOut.resp # "nil") # (reqOut.err # NoError)
        /\ reqOut.err.kind \in {"nil", "marshal", "create", "execute", "api", "decode"}

C12_Witness ==
    /\ call = "request"
    /\ reqIn.body = "ok" /\ reqIn.newRequest /\ reqIn.transport
    /\ reqIn.status = StatusOK
    /\ reqIn.readOK
    /\ reqIn.doc.kind = "bad"
    /\ reqOut.resp = "nil"
    /\ reqOut.err = LocalError("decode")

\* C13: fillSentinel is idempotent. For every APIError value (code of the
\* table, code the table lacks, no code) a further call of fillSentinel
\* leaves the value as the first call left it; no call changes the status
\* code, the code or the message; a code of the table gets its sentinel and
\* any other code leaves Err unset.
C13_FillState ==
    (call = "error" /\ fills >= 1) =>
        /\ errVal.StatusCode = errIn.StatusCode
        /\ errVal.Code = errIn.Code
        /\ errVal.Message = errIn.Message
        /\ errVal.kind = "api"
        /\ errIn.Code \notin SentinelCodes => errVal.Err = NoSentinel
        /\ errIn.Code \in SentinelCodes => errVal.Err = sentinelTable[errIn.Code]

C13_FillSentinelIdempotent ==
    /\ []C13_FillState
    /\ [][(fills >= 1 /\ fills' = fills + 1) => errVal' = errVal]_vars

C13_Witness ==
    /\ call = "error"
    /\ fills = 2
    /\ errIn.Code = "SOMETHING_ELSE"
    /\ errIn.StatusCode = 503
    /\ errVal = errIn

\* C14: concurrent calls of doRequest on one client, under every
\* interleaving, each return the response or the error of their own request:
\* the request sent carries the caller's own body, the value returned is the
\* classification of the answer to that request (a response, an APIError or
\* a transport error, each carrying the caller's own text), and the client's
\* configuration is what New built.
C14_OwnOutcome(i) ==
    /\ cpc[i] # "start" =>
          cReq[i] = [url |-> NewClient.BaseURL, key |-> NewClient.ApiKey,
                     body |-> cBody[i]]
    /\ cpc[i] \in {"sent", "done"} => cResp[i] \in Answers(cReq[i])
    /\ cpc[i] = "done" =>
          /\ (cOut[i].resp # "nil") # (cOut[i].err # NoError)
          /\ cResp[i].transport = (cOut[i].err.kind # "execute")
          /\ cOut[i].resp # "nil" =>
                cResp[i].status = StatusOK /\ cOut[i].resp = cBody[i]
          /\ cOut[i].err.kind = "api" =>
                /\ cOut[i].err.StatusCode = cResp[i].status
                /\ cOut[i].err.Message = cBody[i]
    /\ cpc[i] # "done" => cOut[i] = Result("nil", NoError, FALSE)

C14_ConcurrentCalls ==
    /\ client = NewClient
    /\ call = "calls" => \A i \in DOMAIN cpc : C14_OwnOutcome(i)

C14_Witness ==
    /\ call = "calls"
    /\ Len(cpc) = 2
    /\ cBody[1] = "a" /\ cBody[2] = "b"
    /\ cpc[1] = "sent" /\ cResp[1].status = 429
    /\ cpc[2] = "done" /\ cOut[2].resp = "b"

\* The chunks the reader has emitted: those received and the one it is
\* sending.
Emitted ==
    {received[k] : k \in DOMAIN received}
    \cup (IF pending = NoChunk THEN {} ELSE {pending})

\* C15: an error frame always ends the stream. For every data line read
\* whose JSON payload has an "error" key at its top level, whatever the type
\* of its value, the reader emits for that line an APIError chunk and nothing
\* else, returns on it, and reads no later line.
C15_ErrorFrameEnds ==
    \A i \in 1..pos :
        (wire[i].kind = "data" /\ HasTopLevelErrorKey(wire[i].doc)) =>
            /\ pos = i
            /\ term = "errframe"
            /\ \E c \in Emitted : c.idx = i
            /\ \A c \in Emitted : c.idx = i => c.Err.kind = "api"

\* A data line that is a content delta: a JSON object of the chunk shape with
\* no "error" key at its top level.
LegitDelta(line) ==
    line.kind = "data" /\ line.doc.kind \in {"content", "nested"}

\* C16: no false-positive error frames. Every data line read that is a
\* content delta with no top-level "error" key is emitted as the content
\* chunk of its payload, never as an error chunk, and the reader does not
\* return on it, also when the delta's text holds the characters "error": .
C16_NoFalsePositive ==
    \A i \in 1..pos :
        LegitDelta(wire[i]) =>
            /\ \E c \in Emitted : c.idx = i
            /\ \A c \in Emitted :
                  c.idx = i => c = Chunk(i, wire[i].doc.text, NoError)
            /\ pos = i => term \notin {"errframe", "decode"}

\* C17: cancellation is not an error. When the reader handles a failed read
\* and the context is cancelled at that moment, it emits no chunk for the
\* failure and goes straight to its cleanup; it emits an error chunk for a
\* failed read only when the context is not cancelled as it handles the
\* failure, and a reader that returned on cancellation has emitted no error
\* chunk at all.
C17_HandledSilently ==
    (pc = "readErr" /\ pc' # "readErr") =>
        /\ ctxDone =>
              /\ pending' = NoChunk
              /\ received' = received
              /\ pc' = "closeBody"
              /\ term' = "cancel"
        /\ pending' # NoChunk =>
              /\ ~ctxDone
              /\ rerr # "EOF"
              /\ pending' = Chunk(0, "nil", LocalError("read"))

C17_CancelNotAnError ==
    /\ [][C17_HandledSilently]_vars
    /\ [](term = "cancel" => \A c \in Emitted : ~IsErrChunk(c))
    /\ [](\A c \in Emitted : c.Err.kind = "read" => term = "readfail")

C17_Witness ==
    /\ term = "cancel"
    /\ pc = "closeBody"
    /\ ctxDone
    /\ endMode = "fail"
    /\ bodyCloses = 0
    /\ Len(received) >= 1

\* The data frames (lines with the "data: " prefix) the reader has consumed.
DataFramesRead == Cardinality({i \in 1..pos : HasDataPrefix(wire[i])})

\* The lines consumed that the reader decoded into a chunk.
ChunksDecoded ==
    Cardinality({i \in 1..pos :
                    ProcessLine(wire[i], i).act \in {"emit", "emitReturn"}})

ChunksFromLines(s) == Cardinality({k \in DOMAIN s : s[k].idx > 0})

\* C18: back-pressure. The reader takes a further line from the body only
\* when no chunk of its own is waiting for the consumer; a chunk is waiting
\* exactly while the reader is blocked in its send; the chunks decoded from
\* the lines consumed are the ones received plus at most the one waiting;
\* and the data frames consumed exceed the chunks received by at most one.
C18_OneUndelivered ==
    /\ (pending # NoChunk) <=> (pc = "send")
    /\ ChunksDecoded =
          ChunksFromLines(received) + (IF pending.idx > 0 THEN 1 ELSE 0)
    /\ DataFramesRead <= Len(received) + 1

C18_BackPressure ==
    /\ []C18_OneUndelivered
    /\ [][pos' # pos => (pending = NoChunk /\ pc = "read")]_vars

C18_Witness ==
    /\ pc = "send"
    /\ pos = 2
    /\ Len(wire) = 3
    /\ Len(received) = 1
    /\ DataFramesRead = 2
    /\ pending = Chunk(2, "delta", NoError)

\* The reader goroutine is running its loop (it has not reached its deferred
\* calls).
ReaderInLoop == pc \in {"read", "readErr", "send"}

\* C19: resource release. The body of an established stream is closed by
\* the reader's cleanup on every path on which the reader returns, and
\* before the channel is closed; it is closed at most twice (once by the
\* reader, once by the watcher) and a second close changes nothing else and
\* stops no one; while the reader is in its loop the body is closed only if
\* the watcher closed it, which it does only under a cancelled context.
C19_Released ==
    /\ Closed => bodyClosed
    /\ pc \in {"closeChan", "done"} =>
          (bodyClosed /\ term \in {"done", "eof", "cancel", "readfail",
                                    "errframe", "decode"})
    /\ (Established /\ bodyClosed /\ (ReaderInLoop \/ pc = "closeBody")) =>
          (ctxDone /\ wpc = "done" /\ bodyCloses = 1)
    /\ Established => bodyCloses <= 2
    /\ (Established /\ bodyCloses = 2) =>
          (wpc = "done" /\ pc \in {"closeChan", "done"})

C19_CloseStep ==
    (Established /\ bodyCloses' # bodyCloses) =>
        /\ bodyCloses' = bodyCloses + 1
        /\ \/ pc = "closeBody" /\ pc' = "closeChan" /\ wpc' = wpc
           \/ ctxDone /\ wpc = "waiting" /\ wpc' = "done" /\ pc' = pc
        /\ UNCHANGED <<pending, received, chState, term, rerr, pos>>

C19_ResourceRelease ==
    /\ []C19_Released
    /\ [][C19_CloseStep]_vars

C19_Witness ==
    /\ Closed
    /\ pc = "done"
    /\ wpc = "done"
    /\ bodyCloses = 2
    /\ term = "done"

\* C20: task termination. Once the channel of a stream is closed, the reader
\* goroutine and the watcher goroutine both end eventually, whether or not
\* the context is ever cancelled.
C20_TasksTerminate == Closed ~> (pc = "done" /\ wpc = "done")

\* A body none of whose lines ends the stream: no [DONE] frame, no line the
\* reader takes for an error frame, no payload that does not decode.
CleanBody(w) ==
    \A i \in DOMAIN w : ~IsDoneToken(w[i]) /\ ~FailingLine(w[i])

DataFramesIn(w) == Cardinality({i \in DOMAIN w : HasDataPrefix(w[i])})

\* The chunks in s come from data frames of the body, in arrival order, one
\* per frame.
InArrivalOrder(s) ==
    /\ \A k \in DOMAIN s :
          /\ s[k].idx \in DOMAIN wire
          /\ HasDataPrefix(wire[s[k].idx])
    /\ \A j, k \in DOMAIN s : j < k => s[j].idx < s[k].idx

\* C21: end of stream without a terminal token. When the server closes a
\* body that holds no [DONE] frame and no failing frame, and the channel is
\* closed without the reader having returned on cancellation, the reader
\* returned on the end of the body, the chunks of all the data frames of the
\* body were received before, one each and in arrival order, and no error
\* chunk was emitted.
C21_EndWithoutDone ==
    (/\ Closed
     /\ term # "cancel"
     /\ CleanBody(wire)
     /\ endMode \in {"eof", "partial"}) =>
        /\ term = "eof"
        /\ pos = Len(wire)
        /\ pending = NoChunk
        /\ ErrCount(received) = 0
        /\ Len(received) = DataFramesIn(wire)
        /\ InArrivalOrder(received)

C21_Witness ==
    /\ Closed
    /\ ~ctxDone
    /\ term = "eof"
    /\ endMode = "eof"
    /\ Len(wire) = 3
    /\ CleanBody(wire)
    /\ wire[2].kind = "comment"
    /\ Len(received) = 2

\* C22: no data frame is lost. When the channel is closed without the
\* reader having returned on cancellation, every content data line the
\* reader met before it returned was received as exactly one chunk; and
\* when the reader returned on the end of a body whose last data line has
\* no line terminator, the chunk of that line was received too.
C22_NoFrameLost ==
    (Closed /\ term # "cancel") =>
        /\ \A i \in 1..pos :
              LegitDelta(wire[i]) =>
                 Cardinality({k \in DOMAIN received : received[k].idx = i}) = 1
        /\ (term = "eof" /\ endMode = "partial") =>
              \E k \in DOMAIN received :
                 /\ received[k].idx = Len(wire) + 1
                 /\ received[k].val = PartialLine.doc.text

\* The data lines among the lines the reader has read, in order.
DataLinesRead == SelectSeq(SubSeq(wire, 1, pos), HasDataPrefix)

\* What a chunk carries, apart from the position of its line.
Payload(c) == [val |-> c.val, Err |-> c.Err]

\* The payloads the read loop emits on a sequence of data lines alone.
RECURSIVE DecodeAll(_)
DecodeAll(ls) ==
    IF ls = <<>> THEN <<>>
    ELSE IF ProcessLine(Head(ls), 0).act = "return" THEN <<>>
    ELSE IF ProcessLine(Head(ls), 0).act = "emitReturn"
    THEN <<Payload(ProcessLine(Head(ls), 0).chunk)>>
    ELSE <<Payload(ProcessLine(Head(ls), 0).chunk)>> \o DecodeAll(Tail(ls))

FromLine(c) == c.idx > 0

\* The payloads of the chunks emitted for lines, in order.
EmittedPayloads ==
    [k \in DOMAIN SelectSeq(received, FromLine) |->
        Payload(SelectSeq(received, FromLine)[k])]
    \o (IF pending.idx > 0 THEN <<Payload(pending)>> ELSE <<>>)

\* A step in which the reader reads a line without the "data: " prefix: no
\* chunk, no return, nothing else of the decoder or the stream changes.
C23_IgnoredStep ==
    (pos' = pos + 1 /\ ~HasDataPrefix(wire[pos + 1])) =>
        /\ pc' = "read"
        /\ pending' = NoChunk
        /\ UNCHANGED <<received, term, rerr, chState, chanCloses, bodyCloses,
                       wpc, ctxDone, wire, endMode, consumer>>

\* What the lines read so far have produced depends on the data lines among
\* them only: the payloads emitted are those of the data lines alone, and a
\* reader that returned on a line returned on the last data line, in the
\* way that line ends a stream.
C23_DataLinesOnly ==
    /\ EmittedPayloads = DecodeAll(DataLinesRead)
    /\ term \in {"done", "errframe", "decode"} =>
          /\ HasDataPrefix(wire[pos])
          /\ term = ProcessLine(wire[pos], pos).term
    /\ (pos >= 1 /\ ~HasDataPrefix(wire[pos])) =>
          term \in {"", "eof", "cancel", "readfail"}

\* C23: non-data lines are ignored. Reading a line without the "data: "
\* prefix emits no chunk, does not end the stream and changes nothing of the
\* decoder, so with such lines anywhere in the body the chunks delivered and
\* the way the stream ends are those of the data lines alone.
C23_NonDataIgnored ==
    /\ [][C23_IgnoredStep]_vars
    /\ []C23_DataLinesOnly

C23_Witness ==
    /\ Len(wire) = 3
    /\ wire[1].kind = "comment"
    /\ wire[2] = ContentLine
    /\ wire[3].kind = "comment"
    /\ pos = 3
    /\ pc = "read"
    /\ Len(received) = 1
    /\ received[1] = ContentChunk(2)

\* C24: terminal token. Once the reader has read a [DONE] frame it has
\* emitted no chunk for it, it is in its cleanup or has ended, it reads no
\* line after it, and every chunk emitted comes from a line before it: the
\* frames that follow [DONE] in the body are never read and never delivered.
C24_DoneEnds ==
    \A i \in 1..pos :
        IsDoneToken(wire[i]) =>
            /\ pos = i
            /\ term = "done"
            /\ pc \in {"closeBody", "closeChan", "done"}
            /\ pending = NoChunk
            /\ \A c \in Emitted : c.idx >= 1 /\ c.idx < i
            /\ pc = "done" => Closed

C24_Witness ==
    /\ Closed
    /\ wire = <<ContentLine, DoneLine, ErrorFrame("PROVIDER_ERROR")>>
    /\ pos = 2
    /\ term = "done"
    /\ received = <<ContentChunk(1)>>

\* C25: error taxonomy of doRequest. The error returned is an APIError
\* exactly when a response with a status outside the 2xx range was received;
\* a body that does not marshal is reported with no request sent; a
\* transport failure and a success body that does not decode are reported as
\* errors that are no APIError.
C25_ErrorTaxonomy ==
    call = "request" =>
        /\ (reqOut.err.kind = "api") <=>
              (GotResponse /\ reqIn.status \notin 200..299)
        /\ reqIn.body = "unmarshalable" =>
              (reqOut.err = LocalError("marshal") /\ ~reqOut.sent)
        /\ (reqIn.body # "unmarshalable" /\ reqIn.newRequest
              /\ ~reqIn.transport) =>
              reqOut.err = LocalError("execute")
        /\ (GotResponse /\ reqIn.status \in 200..299
              /\ (~reqIn.readOK \/ ~UnmarshalValue(reqIn.doc).ok)) =>
              reqOut.err = LocalError("decode")

\* Stream received a response it did not take for a success.
StreamGotRefusal ==
    /\ call = "stream"
    /\ strIn.marshal /\ strIn.newRequest /\ strIn.transport
    /\ strIn.status # StatusOK

\* C26: stream start. Stream returns exactly one of a channel and an error.
\* When the initial response has a non-success status it returns an
\* APIError with the response's status (and the sentinel of the body's
\* code, when the body carries one of the table) and no channel, the body
\* is closed once, neither the reader nor the watcher is spawned, and no
\* chunk is ever produced.
C26_StreamStart ==
    /\ call = "stream" => (strOut.ch # (strOut.err # NoError))
    /\ (call = "stream" /\ ~strOut.ch) =>
          /\ pc = "none" /\ wpc = "none" /\ chState = "none"
          /\ pending = NoChunk /\ received = <<>>
    /\ StreamGotRefusal =>
          /\ ~strOut.ch
          /\ strOut.err.kind = "api"
          /\ strOut.err.StatusCode = strIn.status
          /\ (strIn.readOK /\ strIn.doc.kind = "apierr") =>
                /\ strOut.err.Code = strIn.doc.code
                /\ strIn.doc.code \in SentinelCodes =>
                      ErrorsIs(strOut.err, sentinelTable[strIn.doc.code])
          /\ bodyCloses = 1

C26_Witness ==
    /\ StreamGotRefusal
    /\ strIn.status = 429
    /\ strIn.readOK
    /\ strIn.doc.kind = "apierr"
    /\ strIn.doc.code = "RATE_LIMIT_EXCEEDED"
    /\ ErrorsIs(strOut.err, "ErrRateLimited")
    /\ bodyCloses = 1
    /\ pc = "none"

\* C27: stream flag per call. The request Create sends carries stream =
\* false and the request Stream sends carries stream = true, whatever the
\* caller put in the params, also when Create and Stream run concurrently on
\* the same params.
C27_StreamFlag ==
    call = "flags" =>
        /\ fpc.create = "sent" => fSent.create = "false"
        /\ fpc.stream = "sent" => fSent.stream = "true"

====
